---- MODULE Spec2Model ----
(***************************************************************************)
(* A model of parse_mermaid.py: the line-oriented Mermaid parser           *)
(* (MermaidParser.parse and its recognizers) as a state machine.           *)
(*                                                                         *)
(* A Python string is modelled as a sequence of one-character strings, so  *)
(* that the regular expressions of the source are evaluated character by   *)
(* character.  Python's None is the value None below, which is no string.  *)
(***************************************************************************)
EXTENDS Integers, Sequences, FiniteSets, TLC

None == <<"None">>

(* ---------------------------------------------------------------------- *)
(* Character classes of Python's re module, over the ASCII characters the *)
(* inputs use.                                                            *)
(* ---------------------------------------------------------------------- *)
UpperChars == <<"A", "B", "C", "D", "E", "F", "G", "H", "I", "J", "K", "L", "M", "N", "O", "P", "Q", "R", "S", "T", "U", "V", "W", "X", "Y", "Z">>
LowerChars == <<"a", "b", "c", "d", "e", "f", "g", "h", "i", "j", "k", "l", "m", "n", "o", "p", "q", "r", "s", "t", "u", "v", "w", "x", "y", "z">>
DigitChars == <<"0", "1", "2", "3", "4", "5", "6", "7", "8", "9">>

Range(s) == {s[i] : i \in 1..Len(s)}

\* \w
WordCharSet == Range(UpperChars) \cup Range(LowerChars) \cup Range(DigitChars) \cup {"_"}
WordChar(c) == c \in WordCharSet

\* \s, and the characters str.strip() removes
SpaceChar(c) == c \in {" ", "\t", "\n"}

\* the character classes the patterns repeat: \w, \s, [^"], - and =
InClass(c, cls) ==
    CASE cls = "word" -> WordChar(c)
      [] cls = "space" -> SpaceChar(c)
      [] cls = "notquote" -> c # "\""
      [] cls = "dash" -> c = "-"
      [] cls = "equals" -> c = "="

Min(S) == CHOOSE x \in S : \A y \in S : x <= y

\* the literal p occurs in s at position i
MatchAt(s, i, p) == /\ i >= 1
                    /\ i + Len(p) - 1 <= Len(s)
                    /\ SubSeq(s, i, i + Len(p) - 1) = p

\* str.startswith
StartsWith(s, p) == MatchAt(s, 1, p)

\* a greedy run of the class cls starting at i ends just before RunEnd
\* (cls* and cls+ never give a character back: what follows them in every
\* pattern of the source is outside the class)
RunEnd(s, i, cls) ==
    CHOOSE j \in i..(Len(s) + 1) :
        /\ \A k \in i..(j - 1) : InClass(s[k], cls)
        /\ (j = Len(s) + 1 \/ ~InClass(s[j], cls))

\* str.strip
Strip(s) ==
    LET keep == {i \in 1..Len(s) : ~SpaceChar(s[i])}
    IN  IF keep = {} THEN <<>>
        ELSE SubSeq(s, Min(keep), CHOOSE x \in keep : \A y \in keep : y <= x)

\* str.lower, character by character
LowerChar(c) ==
    IF c \in Range(UpperChars)
    THEN LowerChars[CHOOSE i \in 1..Len(UpperChars) : UpperChars[i] = c]
    ELSE c
Lower(s) == [i \in 1..Len(s) |-> LowerChar(s[i])]

\* str.split('\n'): the pieces between the line breaks, in order
Breaks(s) == {0} \cup {i \in 1..Len(s) : s[i] = "\n"} \cup {Len(s) + 1}
NthBreak(s, k) == CHOOSE b \in Breaks(s) : Cardinality({c \in Breaks(s) : c < b}) = k - 1
Split(s) ==
    [k \in 1..(Cardinality(Breaks(s)) - 1) |->
        SubSeq(s, NthBreak(s, k) + 1, NthBreak(s, k + 1) - 1)]

NonEmpty(l) == l # <<>>

\* parse, line 141: the stripped, non-empty lines of the text
SplitLines(text) ==
    LET raw == Split(text)
    IN  SelectSeq([i \in 1..Len(raw) |-> Strip(raw[i])], NonEmpty)

(* ---------------------------------------------------------------------- *)
(* _determine_node_type: the ordered table of (type, patterns).  A        *)
(* pattern \bw\b is [kind |-> "word", arg |-> w]; \? is a literal; and    *)
(* \{.*\} is "braces".                                                    *)
(* ---------------------------------------------------------------------- *)
W(w) == [kind |-> "word", arg |-> w]
Lit(w) == [kind |-> "lit", arg |-> w]
Braces == [kind |-> "braces", arg |-> <<>>]

node_patterns_swapped == <<
    [type |-> "START", patterns |-> <<W(<<"s", "t", "a", "r", "t">>), W(<<"b", "e", "g", "i", "n">>), W(<<"e", "n", "t", "r", "y">>),
                                      W(<<"i", "n", "i", "t", "i", "a", "l">>), W(<<"s", "t", "a", "r", "t", " ", "c", "a", "l", "l">>)>>],
    [type |-> "END", patterns |-> <<W(<<"e", "n", "d">>), W(<<"s", "t", "o", "p">>), W(<<"d", "o", "n", "e">>),
                                    W(<<"t", "e", "r", "m", "i", "n", "a", "t", "e">>), W(<<"e", "n", "d", " ", "c", "a", "l", "l">>), W(<<"h", "a", "n", "g", "u", "p">>)>>],
    [type |-> "INPUT", patterns |-> <<W(<<"i", "n", "p", "u", "t">>), W(<<"e", "n", "t", "e", "r">>), W(<<"p", "r", "o", "m", "p", "t">>),
                                      W(<<"g", "e", "t">>), W(<<"d", "i", "g", "i", "t", "s">>), W(<<"p", "i", "n">>)>>],
    [type |-> "DECISION", patterns |-> <<Lit(<<"?">>), Braces, W(<<"c", "h", "o", "i", "c", "e">>), W(<<"i", "f">>),
                                         W(<<"p", "r", "e", "s", "s">>), W(<<"s", "e", "l", "e", "c", "t">>), W(<<"o", "p", "t", "i", "o", "n">>)>>],
    [type |-> "TRANSFER", patterns |-> <<W(<<"t", "r", "a", "n", "s", "f", "e", "r">>), W(<<"r", "o", "u", "t", "e">>), W(<<"d", "i", "s", "p", "a", "t", "c", "h">>),
                                         W(<<"f", "o", "r", "w", "a", "r", "d">>), W(<<"c", "o", "n", "n", "e", "c", "t">>)>>],
    [type |-> "MENU", patterns |-> <<W(<<"m", "e", "n", "u">>), W(<<"o", "p", "t", "i", "o", "n", "s">>), W(<<"s", "e", "l", "e", "c", "t">>),
                                     W(<<"c", "h", "o", "i", "c", "e", "s">>)>>],
    [type |-> "PROMPT", patterns |-> <<W(<<"p", "l", "a", "y">>), W(<<"s", "p", "e", "a", "k">>), W(<<"a", "n", "n", "o", "u", "n", "c", "e">>),
                                       W(<<"m", "e", "s", "s", "a", "g", "e">>)>>],
    [type |-> "ERROR", patterns |-> <<W(<<"e", "r", "r", "o", "r">>), W(<<"f", "a", "i", "l">>), W(<<"i", "n", "v", "a", "l", "i", "d">>),
                                      W(<<"r", "e", "t", "r", "y">>), W(<<"t", "i", "m", "e", "o", "u", "t">>)>>] >>

node_patterns == <<
    [type |-> "START", patterns |-> <<W(<<"s", "t", "a", "r", "t">>), W(<<"b", "e", "g", "i", "n">>), W(<<"e", "n", "t", "r", "y">>),
                                      W(<<"i", "n", "i", "t", "i", "a", "l">>), W(<<"s", "t", "a", "r", "t", " ", "c", "a", "l", "l">>)>>],
    [type |-> "END", patterns |-> <<W(<<"e", "n", "d">>), W(<<"s", "t", "o", "p">>), W(<<"d", "o", "n", "e">>),
                                    W(<<"t", "e", "r", "m", "i", "n", "a", "t", "e">>), W(<<"e", "n", "d", " ", "c", "a", "l", "l">>), W(<<"h", "a", "n", "g", "u", "p">>)>>],
    [type |-> "DECISION", patterns |-> <<Lit(<<"?">>), Braces, W(<<"c", "h", "o", "i", "c", "e">>), W(<<"i", "f">>),
                                         W(<<"p", "r", "e", "s", "s">>), W(<<"s", "e", "l", "e", "c", "t">>), W(<<"o", "p", "t", "i", "o", "n">>)>>],
    [type |-> "INPUT", patterns |-> <<W(<<"i", "n", "p", "u", "t">>), W(<<"e", "n", "t", "e", "r">>), W(<<"p", "r", "o", "m", "p", "t">>),
                                      W(<<"g", "e", "t">>), W(<<"d", "i", "g", "i", "t", "s">>), W(<<"p", "i", "n">>)>>],
    [type |-> "TRANSFER", patterns |-> <<W(<<"t", "r", "a", "n", "s", "f", "e", "r">>), W(<<"r", "o", "u", "t", "e">>), W(<<"d", "i", "s", "p", "a", "t", "c", "h">>),
                                         W(<<"f", "o", "r", "w", "a", "r", "d">>), W(<<"c", "o", "n", "n", "e", "c", "t">>)>>],
    [type |-> "MENU", patterns |-> <<W(<<"m", "e", "n", "u">>), W(<<"o", "p", "t", "i", "o", "n", "s">>), W(<<"s", "e", "l", "e", "c", "t">>),
                                     W(<<"c", "h", "o", "i", "c", "e", "s">>)>>],
    [type |-> "PROMPT", patterns |-> <<W(<<"p", "l", "a", "y">>), W(<<"s", "p", "e", "a", "k">>), W(<<"a", "n", "n", "o", "u", "n", "c", "e">>),
                                       W(<<"m", "e", "s", "s", "a", "g", "e">>)>>],
    [type |-> "ERROR", patterns |-> <<W(<<"e", "r", "r", "o", "r">>), W(<<"f", "a", "i", "l">>), W(<<"i", "n", "v", "a", "l", "i", "d">>),
                                      W(<<"r", "e", "t", "r", "y">>), W(<<"t", "i", "m", "e", "o", "u", "t">>)>>] >>

\* re.search(r'\bw\b', s), for a w that starts and ends with a word character
SearchWord(s, w) ==
    \E i \in 1..(Len(s) - Len(w) + 1) :
        /\ MatchAt(s, i, w)
        /\ (i = 1 \/ ~WordChar(s[i - 1]))
        /\ (i + Len(w) > Len(s) \/ ~WordChar(s[i + Len(w)]))

\* re.search of a literal
SearchLit(s, w) == \E i \in 1..(Len(s) - Len(w) + 1) : MatchAt(s, i, w)

\* re.search(r'\{.*\}', s)
SearchBraces(s) == \E i \in 1..Len(s) : \E j \in (i + 1)..Len(s) : s[i] = "{" /\ s[j] = "}"

PatternSearch(pat, s) ==
    CASE pat.kind = "word" -> SearchWord(s, pat.arg)
      [] pat.kind = "lit" -> SearchLit(s, pat.arg)
      [] pat.kind = "braces" -> SearchBraces(s)

\* any(re.search(pattern, text_lower) for pattern in patterns)
AnyPattern(patterns, s) == \E k \in 1..Len(patterns) : PatternSearch(patterns[k], s)

\* (changed) a text with the word retry gets the type RETRY
_determine_node_type_retry(text) ==
    IF SearchWord(Lower(text), <<"r", "e", "t", "r", "y">>) THEN "RETRY"
    ELSE IF {r \in 1..Len(node_patterns) :
                AnyPattern(node_patterns[r].patterns, Lower(text))} = {}
    THEN "ACTION"
    ELSE node_patterns[Min({r \in 1..Len(node_patterns) :
                               AnyPattern(node_patterns[r].patterns, Lower(text))})].type

_determine_node_type(text) ==
    LET text_lower == Lower(text)
        hits == {r \in 1..Len(node_patterns) : AnyPattern(node_patterns[r].patterns, text_lower)}
    IN  IF hits = {} THEN "ACTION" ELSE node_patterns[Min(hits)].type

(* ---------------------------------------------------------------------- *)
(* The recognizers of one line.  A match object is modelled by its groups *)
(* and its lastindex; a group that took no part in the match is None.     *)
(* ---------------------------------------------------------------------- *)
EmptyMap == [x \in {} |-> None]

\* None where the other values are objects (a match object, an Edge): TLC
\* compares a record only with records
NoneObject == [none |-> TRUE]

\* d[k] = v on a Python dict
Put(d, k, v) == [x \in (DOMAIN d) \cup {k} |-> IF x = k THEN v ELSE d[x]]

\* the end of a leading ^(\w+), and of the \s* after it
HeadWordEnd(line) == RunEnd(line, 1, "word")
HeadEnd(line) == RunEnd(line, HeadWordEnd(line), "space")

\* \s*(\w+) at position i: the word, or None when there is none
TailWord(line, i) ==
    LET e == RunEnd(line, i, "space")
        w == RunEnd(line, e, "word")
    IN  IF w > e THEN SubSeq(line, e, w - 1) ELSE None

\* re.match(r'(?:flowchart|graph)\s+(\w+)', line): group 1 or None
direction_match(line) ==
    LET p == IF StartsWith(line, <<"f", "l", "o", "w", "c", "h", "a", "r", "t">>) THEN Len(<<"f", "l", "o", "w", "c", "h", "a", "r", "t">>)
             ELSE IF StartsWith(line, <<"g", "r", "a", "p", "h">>) THEN Len(<<"g", "r", "a", "p", "h">>)
             ELSE 0
        e == RunEnd(line, p + 1, "space")
    IN  IF p > 0 /\ e > p + 1 THEN TailWord(line, e) ELSE None

\* re.match(r'subgraph\s+(\w+)(?:\s*\[(.*?)\])?', line): the groups, or None
subgraph_match(line) ==
    LET p == Len(<<"s", "u", "b", "g", "r", "a", "p", "h">>)
        e == RunEnd(line, p + 1, "space")
        w == RunEnd(line, e, "word")
        b == RunEnd(line, w, "space")
        close == {k \in (b + 1)..Len(line) : line[k] = "]"}
    IN  IF ~(StartsWith(line, <<"s", "u", "b", "g", "r", "a", "p", "h">>) /\ e > p + 1 /\ w > e) THEN None
        ELSE IF MatchAt(line, b, <<"[">>) /\ close # {}
             THEN <<SubSeq(line, e, w - 1), SubSeq(line, b + 1, Min(close) - 1)>>
             ELSE <<SubSeq(line, e, w - 1), None>>

\* subgraph_match.group(2) or current_subgraph
TitleOr(title, id) == IF title = None \/ title = <<>> THEN id ELSE title

\* the four shapes of _parse_node, in the order of the list node_patterns
\* (lines 218-223): what opens and what closes the quoted text
node_shapes == <<
    [open |-> <<"[", "\"">>, close |-> <<"\"", "]">>],
    [open |-> <<"{", "\"">>, close |-> <<"\"", "}">>],
    [open |-> <<"(", "\"">>, close |-> <<"\"", ")">>],
    [open |-> <<"[", "(", "\"">>, close |-> <<"\"", ")", "]">>] >>

Node(id, text, type) ==
    [id |-> id, raw_text |-> text, node_type |-> type,
     style_classes |-> <<>>, subgraph |-> None, properties |-> EmptyMap]

\* re.match(r'^(\w+)\s*<open>([^"]+)<close>', line) for the shape sh
ShapeMatches(line, sh) ==
    LET e == HeadEnd(line)
        t == e + Len(sh.open)
    IN  /\ HeadWordEnd(line) > 1
        /\ MatchAt(line, e, sh.open)
        /\ RunEnd(line, t, "notquote") > t
        /\ MatchAt(line, RunEnd(line, t, "notquote"), sh.close)

_parse_node(line) ==
    LET hits == {k \in 1..Len(node_shapes) : ShapeMatches(line, node_shapes[k])}
        sh == node_shapes[Min(hits)]
        node_id == SubSeq(line, 1, HeadWordEnd(line) - 1)
        t == HeadEnd(line) + Len(sh.open)
        text == SubSeq(line, t, RunEnd(line, t, "notquote") - 1)
    IN  IF hits = {} THEN None
        ELSE <<node_id, Node(node_id, text, _determine_node_type(text))>>

\* edge_patterns (lines 124-129), in insertion order
edge_patterns == <<
    [pattern |-> "basic", style |-> ""],
    [pattern |-> "labeled", style |-> "label"],
    [pattern |-> "dotted", style |-> "optional"],
    [pattern |-> "thick", style |-> "primary"] >>

Match(groups, lastindex) == [groups |-> groups, lastindex |-> lastindex]

\* re.search(r'^(\w+)\s*--\>|-{2,}>\s*(\w+)', line): the alternation splits
\* the whole pattern, so the left branch ends at the arrow and the right
\* branch starts at it
SearchBasic(line) ==
    LET starts == {j \in 1..Len(line) :
                      /\ line[j] = "-"
                      /\ RunEnd(line, j, "dash") - j >= 2
                      /\ MatchAt(line, RunEnd(line, j, "dash"), <<">">>)
                      /\ TailWord(line, RunEnd(line, j, "dash") + 1) # None}
    IN  IF HeadWordEnd(line) > 1 /\ MatchAt(line, HeadEnd(line), <<"-", "-", ">">>)
        THEN Match(<<SubSeq(line, 1, HeadWordEnd(line) - 1), None>>, 1)
        ELSE IF starts # {}
        THEN Match(<<None, TailWord(line, RunEnd(line, Min(starts), "dash") + 1)>>, 2)
        ELSE NoneObject

\* re.search(r'^(\w+)\s*--\|(.*?)\|->\s*(\w+)', line)
SearchLabeled(line) ==
    LET e == HeadEnd(line)
        ends == {k \in (e + 3)..Len(line) :
                    MatchAt(line, k, <<"|", "-", ">">>) /\ TailWord(line, k + 3) # None}
    IN  IF HeadWordEnd(line) > 1 /\ MatchAt(line, e, <<"-", "-", "|">>) /\ ends # {}
        THEN Match(<<SubSeq(line, 1, HeadWordEnd(line) - 1),
                     SubSeq(line, e + 3, Min(ends) - 1),
                     TailWord(line, Min(ends) + 3)>>, 3)
        ELSE NoneObject

\* re.search(r'^(\w+)\s*-\.->\s*(\w+)', line)
SearchDotted(line) ==
    LET e == HeadEnd(line)
    IN  IF /\ HeadWordEnd(line) > 1
           /\ MatchAt(line, e, <<"-", ".", "-", ">">>)
           /\ TailWord(line, e + 4) # None
        THEN Match(<<SubSeq(line, 1, HeadWordEnd(line) - 1), TailWord(line, e + 4)>>, 2)
        ELSE NoneObject

\* re.search(r'^(\w+)\s*==+>\s*(\w+)', line)
SearchThick(line) ==
    LET e == HeadEnd(line)
        d == RunEnd(line, e, "equals")
    IN  IF /\ HeadWordEnd(line) > 1
           /\ d - e >= 2
           /\ MatchAt(line, d, <<">">>)
           /\ TailWord(line, d + 1) # None
        THEN Match(<<SubSeq(line, 1, HeadWordEnd(line) - 1), TailWord(line, d + 1)>>, 2)
        ELSE NoneObject

\* re.search(labeled_pattern, line) of _parse_edge, line 244
EdgeSearch(pattern, line) ==
    CASE pattern = "basic" -> SearchBasic(line)
      [] pattern = "labeled" -> SearchLabeled(line)
      [] pattern = "dotted" -> SearchDotted(line)
      [] pattern = "thick" -> SearchThick(line)

\* re.search(r'--\|(.*?)\|->', line): group 1, or None
label_match(line) ==
    LET starts == {j \in 1..Len(line) :
                      /\ MatchAt(line, j, <<"-", "-", "|">>)
                      /\ \E k \in (j + 3)..Len(line) : MatchAt(line, k, <<"|", "-", ">">>)}
        j == Min(starts)
        k == Min({x \in (j + 3)..Len(line) : MatchAt(line, x, <<"|", "-", ">">>)})
    IN  IF starts = {} THEN None ELSE SubSeq(line, j + 3, k - 1)

Edge(from_id, to_id, label, style) ==
    [from_id |-> from_id, to_id |-> to_id, label |-> label, style |-> style,
     condition |-> None]

\* (changed) the label is taken as it stands between the pipes
_parse_edge_raw(line) ==
    LET hits == {k \in 1..Len(edge_patterns) :
                    EdgeSearch(edge_patterns[k].pattern, line) # NoneObject}
        style == edge_patterns[Min(hits)].style
        match == EdgeSearch(edge_patterns[Min(hits)].pattern, line)
    IN  IF hits = {} THEN NoneObject
        ELSE Edge(match.groups[1], match.groups[match.lastindex],
                  IF style = "label" THEN label_match(line) ELSE None, style)

_parse_edge(line) ==
    LET hits == {k \in 1..Len(edge_patterns) :
                    EdgeSearch(edge_patterns[k].pattern, line) # NoneObject}
        style == edge_patterns[Min(hits)].style
        match == EdgeSearch(edge_patterns[Min(hits)].pattern, line)
        from_id == match.groups[1]
        to_id == match.groups[match.lastindex]
        label == IF style = "label" /\ label_match(line) # None
                 THEN Strip(label_match(line))
                 ELSE None
    IN  IF hits = {} THEN NoneObject ELSE Edge(from_id, to_id, label, style)

\* re.match(r'classDef\s+(\w+)\s+(.*?)$', line): (class_name, styles) or None
_parse_style(line) ==
    LET p == Len(<<"c", "l", "a", "s", "s", "D", "e", "f">>)
        e == RunEnd(line, p + 1, "space")
        w == RunEnd(line, e, "word")
        b == RunEnd(line, w, "space")
    IN  IF StartsWith(line, <<"c", "l", "a", "s", "s", "D", "e", "f">>) /\ e > p + 1 /\ w > e /\ b > w
        THEN <<SubSeq(line, e, w - 1), SubSeq(line, b, Len(line))>>
        ELSE None

(* ---------------------------------------------------------------------- *)
(* The state: the invocations of parse.  Invocation p runs parse(arg[p]); *)
(* its locals live in the frame Frame(p).  The classifier is also applied *)
(* on its own, to ctext.                                                  *)
(* ---------------------------------------------------------------------- *)
VARIABLES
    arg,               \* arg[p]: the mermaid_text of invocation p
    budget,            \* budget[p]: the calls p may still make
    pc,                \* pc[p]: "idle", "running", "done" or "raised"
    lines,             \* the locals of parse, by frame
    idx,               \* the position of the for loop in lines, by frame
    nodes,
    edges,
    subgraphs,
    metadata,
    current_subgraph,
    result,            \* result[p]: what the last call of p returned
    prev,              \* prev[p]: what the call before it returned
    ctext,             \* the text given to _determine_node_type
    ctype              \* and its answer

vars == <<arg, budget, pc, lines, idx, nodes, edges, subgraphs, metadata,
          current_subgraph, result, prev, ctext, ctype>>

\* the variants of the enumeration NodeType
NodeType == {"START", "END", "ACTION", "DECISION", "INPUT", "TRANSFER", "SUBPROCESS",
             "MENU", "PROMPT", "ERROR", "RETRY"}

\* the callers
Procs == {1, 2}

\* no result yet (a record: results are records)
NoResult == [no_result |-> TRUE]


(* ---------------------------------------------------------------------- *)
(* One pass of the for loop of parse (lines 155-203) over one line, on    *)
(* the locals of the invocation.                                          *)
(* ---------------------------------------------------------------------- *)

\* (changed) the locals are attributes of one shared parser instance
FrameShared(p) == 1

\* each invocation has its own locals (they are local variables of parse,
\* lines 141-152; the parser instance holds only the pattern tables)
Frame(p) == p

Locals(f) ==
    [nodes |-> nodes[f], edges |-> edges[f], subgraphs |-> subgraphs[f],
     metadata |-> metadata[f], current_subgraph |-> current_subgraph[f],
     raised |-> FALSE]

\* (changed) the locals are kept on the parser instance and never reset
NewLocalsKept(f) == Locals(f)

\* the locals parse creates, lines 143-152, in the frame f of an invocation
NewLocals(f) ==
    [nodes |-> EmptyMap,
     edges |-> <<>>,
     subgraphs |-> EmptyMap,
     metadata |-> [title |-> None, direction |-> <<"T", "D">>, styles |-> EmptyMap],
     current_subgraph |-> None,
     raised |-> FALSE]

\* lines 200-203
StyleStep(st, line) ==
    LET style_match == _parse_style(line)
    IN  IF style_match # None
        THEN [st EXCEPT !.metadata.styles = Put(@, style_match[1], style_match[2])]
        ELSE st

\* (changed) an edge whose (from_id, to_id) pair is already there is dropped
EdgeStepDedup(st, line) ==
    IF _parse_edge(line) # NoneObject
    THEN IF \E i \in 1..Len(st.edges) :
                /\ st.edges[i].from_id = _parse_edge(line).from_id
                /\ st.edges[i].to_id = _parse_edge(line).to_id
         THEN st
         ELSE [st EXCEPT !.edges = Append(@, _parse_edge(line))]
    ELSE StyleStep(st, line)

\* lines 194-197
EdgeStep(st, line) ==
    LET edge_obj == _parse_edge(line)
    IN  IF edge_obj # NoneObject
        THEN [st EXCEPT !.edges = Append(@, edge_obj)]
        ELSE StyleStep(st, line)

\* lines 187-190: a subgraph id missing from subgraphs is a KeyError
StoreNode(st, node_match) ==
    LET node_id == node_match[1]
        node == node_match[2]
        cur == st.current_subgraph
        stored == [st EXCEPT !.nodes = Put(@, node_id, node)]
    IN  IF cur = None \/ cur = <<>> THEN stored
        ELSE IF cur \notin DOMAIN st.subgraphs THEN [stored EXCEPT !.raised = TRUE]
        ELSE [stored EXCEPT !.subgraphs[cur].nodes = @ \cup {node_id}]

\* (changed) the continue of line 191 is missing: the line goes on to the
\* edge recognizer
NodeStepFallThrough(st, line) ==
    IF _parse_node(line) # None
    THEN EdgeStep(StoreNode(st, _parse_node(line)), line)
    ELSE EdgeStep(st, line)

\* lines 185-191
NodeStep(st, line) ==
    LET node_match == _parse_node(line)
    IN  IF node_match # None
        THEN StoreNode(st, node_match)
        ELSE EdgeStep(st, line)

\* (changed) a subgraph opened again keeps the members it has
SubgraphStepKeep(st, line) ==
    IF subgraph_match(line) # None
    THEN [st EXCEPT !.current_subgraph = subgraph_match(line)[1],
                    !.subgraphs = Put(@, subgraph_match(line)[1],
                        [id |-> subgraph_match(line)[1],
                         title |-> TitleOr(subgraph_match(line)[2], subgraph_match(line)[1]),
                         nodes |-> IF subgraph_match(line)[1] \in DOMAIN st.subgraphs
                                   THEN st.subgraphs[subgraph_match(line)[1]].nodes
                                   ELSE {}])]
    ELSE st

\* (changed) a subgraph opened while another is open gets its record, and
\* the marker stays on the outer one
SubgraphStepOuter(st, line) ==
    IF subgraph_match(line) # None
    THEN [st EXCEPT !.current_subgraph = IF st.current_subgraph = None
                                         THEN subgraph_match(line)[1]
                                         ELSE st.current_subgraph,
                    !.subgraphs = Put(@, subgraph_match(line)[1],
                        [id |-> subgraph_match(line)[1],
                         title |-> TitleOr(subgraph_match(line)[2], subgraph_match(line)[1]),
                         nodes |-> {}])]
    ELSE st

\* (changed) a subgraph opened for the first time gets no record
SubgraphStepNoRecord(st, line) ==
    IF subgraph_match(line) # None
    THEN [st EXCEPT !.current_subgraph = subgraph_match(line)[1]]
    ELSE st

\* lines 168-178
SubgraphStep(st, line) ==
    LET m == subgraph_match(line)
    IN  IF m # None
        THEN [st EXCEPT !.current_subgraph = m[1],
                        !.subgraphs = Put(@, m[1], [id |-> m[1],
                                                    title |-> TitleOr(m[2], m[1]),
                                                    nodes |-> {}])]
        ELSE st

\* (changed) a declaration without a direction puts the default back
DirectionStepReset(st, line) ==
    IF direction_match(line) # None
    THEN [st EXCEPT !.metadata.direction = direction_match(line)]
    ELSE [st EXCEPT !.metadata.direction = <<"T", "D">>]

\* (changed) the first declared direction stays
DirectionStepFirst(st, line) ==
    IF direction_match(line) # None /\ st.metadata.direction = <<"T", "D">>
    THEN [st EXCEPT !.metadata.direction = direction_match(line)]
    ELSE st

\* lines 161-165
DirectionStep(st, line) ==
    IF direction_match(line) # None
    THEN [st EXCEPT !.metadata.direction = direction_match(line)]
    ELSE st

\* the body of the loop, lines 156-203
process_line(st, line) ==
    IF StartsWith(line, <<"%", "%">>) \/ StartsWith(line, <<"%">>) THEN st
    ELSE IF StartsWith(line, <<"f", "l", "o", "w", "c", "h", "a", "r", "t">>) \/ StartsWith(line, <<"g", "r", "a", "p", "h">>)
         THEN DirectionStep(st, line)
    ELSE IF StartsWith(line, <<"s", "u", "b", "g", "r", "a", "p", "h">>) THEN SubgraphStep(st, line)
    ELSE IF line = <<"e", "n", "d">> THEN [st EXCEPT !.current_subgraph = None]
    ELSE NodeStep(st, line)

(* ---------------------------------------------------------------------- *)
(* The invocations of parse.                                              *)
(* ---------------------------------------------------------------------- *)

\* the dictionary parse returns, lines 205-210
Returned(st) ==
    [nodes |-> st.nodes, edges |-> st.edges, subgraphs |-> st.subgraphs,
     metadata |-> st.metadata]

\* parse is entered: lines 141-152
Call(p) ==
    LET f == Frame(p)
        st == NewLocals(f)
    IN  /\ pc[p] \in {"idle", "done"}
        /\ budget[p] > 0
        /\ budget' = [budget EXCEPT ![p] = @ - 1]
        /\ pc' = [pc EXCEPT ![p] = "running"]
        /\ lines' = [lines EXCEPT ![f] = SplitLines(arg[p])]
        /\ idx' = [idx EXCEPT ![f] = 1]
        /\ nodes' = [nodes EXCEPT ![f] = st.nodes]
        /\ edges' = [edges EXCEPT ![f] = st.edges]
        /\ subgraphs' = [subgraphs EXCEPT ![f] = st.subgraphs]
        /\ metadata' = [metadata EXCEPT ![f] = st.metadata]
        /\ current_subgraph' = [current_subgraph EXCEPT ![f] = st.current_subgraph]
        /\ prev' = [prev EXCEPT ![p] = result[p]]
        /\ result' = [result EXCEPT ![p] = NoResult]
        /\ UNCHANGED <<arg, ctext, ctype>>

\* one iteration of the for loop, lines 155-203; a fault ends the call
\* with ValueError (lines 212-213)
ProcessLine(p) ==
    \E f \in {Frame(p)} :
        /\ pc[p] = "running"
        /\ idx[f] <= Len(lines[f])
        /\ \E st \in {process_line(Locals(f), lines[f][idx[f]])} :
            /\ idx' = [idx EXCEPT ![f] = @ + 1]
            /\ nodes' = [nodes EXCEPT ![f] = st.nodes]
            /\ edges' = [edges EXCEPT ![f] = st.edges]
            /\ subgraphs' = [subgraphs EXCEPT ![f] = st.subgraphs]
            /\ metadata' = [metadata EXCEPT ![f] = st.metadata]
            /\ current_subgraph' = [current_subgraph EXCEPT ![f] = st.current_subgraph]
            /\ pc' = [pc EXCEPT ![p] = IF st.raised THEN "raised" ELSE @]
        /\ UNCHANGED <<arg, budget, lines, result, prev, ctext, ctype>>

\* the loop is over: lines 205-210
Return(p) ==
    LET f == Frame(p)
    IN  /\ pc[p] = "running"
        /\ idx[f] > Len(lines[f])
        /\ pc' = [pc EXCEPT ![p] = "done"]
        /\ result' = [result EXCEPT ![p] = Returned(Locals(f))]
        /\ UNCHANGED <<arg, budget, lines, idx, nodes, edges, subgraphs, metadata,
                       current_subgraph, prev, ctext, ctype>>

\* _determine_node_type applied to ctext
Classify ==
    /\ ctype = "unset"
    /\ ctype' = _determine_node_type(ctext)
    /\ UNCHANGED <<arg, budget, pc, lines, idx, nodes, edges, subgraphs, metadata,
                   current_subgraph, result, prev, ctext>>

Next == \E p \in Procs : Call(p) \/ ProcessLine(p) \/ Return(p)

\* the state before any call, given the texts and the calls to make; no
\* frame holds anything yet
InitWith(args, calls, text) ==
    /\ arg = args
    /\ budget = calls
    /\ pc = [p \in Procs |-> "idle"]
    /\ lines = [f \in Procs |-> <<>>]
    /\ idx = [f \in Procs |-> 1]
    /\ nodes = [f \in Procs |-> EmptyMap]
    /\ edges = [f \in Procs |-> <<>>]
    /\ subgraphs = [f \in Procs |-> EmptyMap]
    /\ metadata = [f \in Procs |-> [title |-> None, direction |-> <<"T", "D">>, styles |-> EmptyMap]]
    /\ current_subgraph = [f \in Procs |-> None]
    /\ result = [p \in Procs |-> NoResult]
    /\ prev = [p \in Procs |-> NoResult]
    /\ ctext = text
    /\ ctype = "unset"

(* ---------------------------------------------------------------------- *)
(* The inputs.  A text is lines joined by "\n"; each specification draws  *)
(* its texts from the lines of one alphabet, up to a number of lines.     *)
(* ---------------------------------------------------------------------- *)
MaxLines == 2
MaxCalls == 2
MaxSubLines == 4
MaxConcLines == 2
MaxWords == 2
MaxEdgeLines == 2
MaxDirLines == 3

RECURSIVE JoinWith(_, _)
JoinWith(ls, sep) ==
    IF ls = <<>> THEN <<>>
    ELSE IF Len(ls) = 1 THEN ls[1]
    ELSE ls[1] \o sep \o JoinWith(Tail(ls), sep)

SeqsUpTo(S, n) == UNION {[1..k -> S] : k \in 0..n}

TextsOver(S, n) == {JoinWith(ls, <<"\n">>) : ls \in SeqsUpTo(S, n)}

\* the end-to-end example of the specification
ExampleText == JoinWith(<<<<"f", "l", "o", "w", "c", "h", "a", "r", "t", " ", "T", "D">>,
                          <<"A", "[", "\"", "S", "t", "a", "r", "t", "\"", "]", " ", "-", "-", ">", " ", "B", "{", "\"", "D", "e", "c", "i", "s", "i", "o", "n", "?", "\"", "}">>,
                          <<"B", " ", "-", "-", ">", "|", "\"", "y", "e", "s", "\"", "|", " ", "C", "[", "\"", "E", "n", "d", "\"", "]">>,
                          <<"B", " ", "-", "-", ">", "|", "\"", "n", "o", "\"", "|", " ", "A">>>>, <<"\n">>)

\* DEFAULT_FLOWS["PIN Change"] of app.py
PinChangeText == JoinWith(<<<<"f", "l", "o", "w", "c", "h", "a", "r", "t", " ", "T", "D">>,
                            <<" ", " ", " ", " ", "A", "[", "\"", "E", "n", "t", "e", "r", " ", "P", "I", "N", "\"", "]", " ", "-", "-", ">", " ", "B", "{", "\"", "V", "a", "l", "i", "d", " ", "P", "I", "N", "?", "\"", "}">>,
                            <<" ", " ", " ", " ", "B", " ", "-", "-", ">", "|", "\"", "N", "o", "\"", "|", " ", "C", "[", "\"", "I", "n", "v", "a", "l", "i", "d", " ", "E", "n", "t", "r", "y", "\"", "]">>,
                            <<" ", " ", " ", " ", "B", " ", "-", "-", ">", "|", "\"", "Y", "e", "s", "\"", "|", " ", "D", "[", "\"", "P", "I", "N", " ", "C", "h", "a", "n", "g", "e", "d", "\"", "]">>,
                            <<" ", " ", " ", " ", "C", " ", "-", "-", ">", " ", "A">>>>, <<"\n">>)

IdA == <<"A">>
IdB == <<"B">>
IdG == <<"G">>
IdH == <<"H">>
IdC == <<"C">>

\* X -->|"L"| Y and X --> Y
PipeEdgeLine(x, l, y) == x \o <<" ", "-", "-", ">", "|", "\"">> \o l \o <<"\"", "|", " ">> \o y
PlainEdgeLine(x, y) == x \o <<" ", "-", "-", ">", " ">> \o y

MainLines == {
    <<"f", "l", "o", "w", "c", "h", "a", "r", "t", " ", "L", "R">>,
    <<"g", "r", "a", "p", "h">>,
    <<"s", "u", "b", "g", "r", "a", "p", "h", " ", "G">>,
    <<"e", "n", "d">>,
    <<"A", "[", "\"", "S", "t", "a", "r", "t", "\"", "]", " ", "-", "-", ">", " ", "B", "{", "\"", "D", "e", "c", "i", "s", "i", "o", "n", "?", "\"", "}">>,
    <<"A", "(", "\"", "E", "n", "t", "e", "r", " ", "P", "I", "N", "\"", ")">>,
    <<"g", "r", "a", "p", "h", "A", "[", "\"", "x", "\"", "]">>,
    PipeEdgeLine(IdA, <<"P", "r", "e", "s", "s", " ", "1">>, IdB),
    PlainEdgeLine(IdA, IdB),
    <<"B", " ", "-", ".", "-", ">", " ", "A">>,
    <<"c", "l", "a", "s", "s", "D", "e", "f", " ", "h", "o", "t", " ", "f", "i", "l", "l", ":", "r", "e", "d">>,
    <<"h", "e", "l", "l", "o", " ", "w", "o", "r", "l", "d">>,
    <<"%", "%", " ", "n", "o", "t", "e">> }

Texts == TextsOver(MainLines, MaxLines) \cup {ExampleText, PinChangeText}

SubLines == {
    <<"s", "u", "b", "g", "r", "a", "p", "h", " ", "G">>,
    <<"s", "u", "b", "g", "r", "a", "p", "h", " ", "H", " ", "[", "H", "e", "l", "p", "]">>,
    <<" ", " ", "e", "n", "d", " ">>,
    <<"s", "u", "b", "g", "r", "a", "p", "h">>,
    <<"A", "[", "\"", "x", "\"", "]">>,
    <<"B", "{", "\"", "y", "\"", "}">> }

SubTexts == TextsOver(SubLines, MaxSubLines)

ConcLines == {
    <<"s", "u", "b", "g", "r", "a", "p", "h", " ", "G">>,
    <<"A", "[", "\"", "x", "\"", "]">>,
    <<"B", " ", "-", ".", "-", ">", " ", "A">> }

ConcTexts == TextsOver(ConcLines, MaxConcLines)

\* X --|L|-> Y, the labeled connector of edge_patterns
LabeledEdgeLine(x, l, y) == x \o <<" ", "-", "-", "|">> \o l \o <<"|", "-", ">", " ">> \o y

EdgeLines == {
    PlainEdgeLine(IdA, IdB),
    PipeEdgeLine(IdA, <<"P", "r", "e", "s", "s", " ", "1">>, IdB),
    LabeledEdgeLine(IdA, <<"x">>, IdB),
    LabeledEdgeLine(IdB, <<" ", "P", "r", "e", "s", "s", " ", "1", " ">>, IdC),
    LabeledEdgeLine(IdA, <<>>, IdB),
    LabeledEdgeLine(IdA, <<"x", "-", "-", ">", "y">>, IdB),
    <<"A", " ", "-", ".", "-", ">", " ", "B">>,
    <<"A", " ", "=", "=", ">", " ", "B">>,
    <<"A", " ", "-", "-", "-", ">", " ", "B">>,
    <<"f", "o", "o", " ", "b", "a", "r", " ", "-", "-", ">", " ", "B">>,
    <<"A", "[", "\"", "S", "t", "a", "r", "t", "\"", "]", " ", "-", "-", ">", " ", "B", "{", "\"", "D", "e", "c", "i", "s", "i", "o", "n", "?", "\"", "}">>,
    <<"h", "e", "l", "l", "o", " ", "w", "o", "r", "l", "d">> }

EdgeTexts == TextsOver(EdgeLines, MaxEdgeLines)

\* lines about the direction, each with the direction token it declares
\* (None: it declares none)
DirForms == {
    <<<<"f", "l", "o", "w", "c", "h", "a", "r", "t", " ", "L", "R">>, <<"L", "R">>>>,
    <<<<"g", "r", "a", "p", "h", " ", "R", "L">>, <<"R", "L">>>>,
    <<<<"g", "r", "a", "p", "h", " ", " ", "B", "T", " ", "e", "x", "t", "r", "a">>, <<"B", "T">>>>,
    <<<<"g", "r", "a", "p", "h">>, None>>,
    <<<<"f", "l", "o", "w", "c", "h", "a", "r", "t", "X", " ", "B", "T">>, None>>,
    <<<<"g", "r", "a", "p", "h", "A", "[", "\"", "x", "\"", "]">>, None>>,
    <<<<"%", "%", " ", "g", "r", "a", "p", "h", " ", "B", "T">>, None>> }

DirLines == {d[1] : d \in DirForms}

DirTexts == TextsOver(DirLines, MaxDirLines)

ClassifyWords == {
    <<"S", "t", "a", "r", "t">>, <<"C", "a", "l", "l">>, <<"E", "n", "d">>, <<"P", "r", "e", "s", "s">>, <<"E", "n", "t", "e", "r">>, <<"P", "I", "N">>, <<"T", "r", "a", "n", "s", "f", "e", "r">>,
    <<"M", "e", "n", "u">>, <<"P", "l", "a", "y">>, <<"R", "e", "t", "r", "y">>, <<"T", "h", "a", "n", "k">>, <<"2", "?">>, <<"r", "e", "s", "t", "a", "r", "t">>, <<"{", "x", "}">> }

ClassifyTexts ==
    {JoinWith(ws, <<" ">>) : ws \in SeqsUpTo(ClassifyWords, MaxWords)} \cup
    {<<"S", "t", "a", "r", "t", " ", "C", "a", "l", "l">>, <<"E", "n", "t", "e", "r", " ", "P", "I", "N">>, <<"T", "r", "a", "n", "s", "f", "e", "r", " ", "t", "o", " ", "A", "g", "e", "n", "t">>, <<"T", "h", "a", "n", "k", " ", "y", "o", "u">>,
     <<"P", "r", "e", "s", "s", " ", "1", " ", "o", "r", " ", "2", "?">>}

\* a node definition: the id, then the text in one of the four shapes
NodeLine(id, k, text) == id \o node_shapes[k].open \o text \o node_shapes[k].close

\* one-line texts: a node definition with a text of ClassifyTexts
NodeTexts == {NodeLine(IdA, k, text) : k \in 1..Len(node_shapes), text \in ClassifyTexts}

OneCaller(text, calls) ==
    InitWith([p \in Procs |-> IF p = 1 THEN text ELSE <<>>],
             [p \in Procs |-> IF p = 1 THEN calls ELSE 0], <<>>)

\* one caller parses a text, MaxCalls times in a row
Init == \E text \in Texts : OneCaller(text, MaxCalls)
Spec == Init /\ [][Next]_vars

\* one caller parses a text with subgraphs, once
InitSub == \E text \in SubTexts : OneCaller(text, 1)
SpecSub == InitSub /\ [][Next]_vars

\* two callers parse at the same time, their loops interleaved line by line
InitConc == \E args \in [Procs -> ConcTexts] : InitWith(args, [p \in Procs |-> 1], <<>>)
SpecConc == InitConc /\ [][Next]_vars

\* one caller parses a text of connections, once
InitEdge == \E text \in EdgeTexts : OneCaller(text, 1)
SpecEdge == InitEdge /\ [][Next]_vars

\* one caller parses a text of declarations, once
InitDir == \E text \in DirTexts : OneCaller(text, 1)
SpecDir == InitDir /\ [][Next]_vars

\* one caller parses a node definition, once
InitNode == \E text \in NodeTexts : OneCaller(text, 1)
SpecNode == InitNode /\ [][Next]_vars

\* the classifier alone
InitClassify ==
    \E text \in ClassifyTexts :
        InitWith([p \in Procs |-> <<>>], [p \in Procs |-> 0], text)
NextClassify == Classify
SpecClassify == InitClassify /\ [][NextClassify]_vars

(* ---------------------------------------------------------------------- *)
(* What the claims speak of.                                              *)
(* ---------------------------------------------------------------------- *)

\* invocation p is about to process its current line / has just done so
AtLine(p) == pc[p] = "running" /\ idx[p] <= Len(lines[p])
CurLine(p) == lines[p][idx[p]]
Processes(p) == AtLine(p) /\ idx'[p] = idx[p] + 1

Triple(e) == <<e.from_id, e.to_id, e.label>>
Triples(es) == [i \in 1..Len(es) |-> Triple(es[i])]

\* the step of the loop a line is consumed by does not run for a line the
\* comment filter, the declaration test or the subgraph test takes first
ReachesNodeStep(l) ==
    /\ ~StartsWith(l, <<"%">>)
    /\ ~StartsWith(l, <<"f", "l", "o", "w", "c", "h", "a", "r", "t">>)
    /\ ~StartsWith(l, <<"g", "r", "a", "p", "h">>)
    /\ ~StartsWith(l, <<"s", "u", "b", "g", "r", "a", "p", "h">>)
    /\ l # <<"e", "n", "d">>

\* a syntactically valid node-definition line, whatever its id
IsNodeDef(l) == _parse_node(l) # None
NodeDefId(l) == _parse_node(l)[1]
NodeDefText(l) == _parse_node(l)[2].raw_text

\* C1: parsing the four-line example returns direction "TD", the nodes
\* A (START, "Start"), B (DECISION, "Decision?"), C (END, "End") and no
\* others, and the edges (A,B,None), (B,C,"yes"), (B,A,"no") in this order.
C1_Example ==
    \A p \in Procs :
        (pc[p] = "done" /\ arg[p] = ExampleText) =>
            /\ result[p].metadata.direction = <<"T", "D">>
            /\ DOMAIN result[p].nodes = {IdA, IdB, IdC}
            /\ result[p].nodes[IdA].node_type = "START"
            /\ result[p].nodes[IdA].raw_text = <<"S", "t", "a", "r", "t">>
            /\ result[p].nodes[IdB].node_type = "DECISION"
            /\ result[p].nodes[IdB].raw_text = <<"D", "e", "c", "i", "s", "i", "o", "n", "?">>
            /\ result[p].nodes[IdC].node_type = "END"
            /\ result[p].nodes[IdC].raw_text = <<"E", "n", "d">>
            /\ Triples(result[p].edges) =
                   << <<IdA, IdB, None>>, <<IdB, IdC, <<"y", "e", "s">>>>, <<IdB, IdA, <<"n", "o">>>> >>

ClaimIds == {IdA, IdB, IdC}
ClaimLabels == {<<"P", "r", "e", "s", "s", " ", "1">>, <<"y", "e", "s">>, <<"n", "o">>}

\* exactly one edge, <<x, y, l>>, is appended to the edges of p
AppendsEdge(p, x, y, l) ==
    /\ Len(edges'[p]) = Len(edges[p]) + 1
    /\ SubSeq(edges'[p], 1, Len(edges[p])) = edges[p]
    /\ Triple(edges'[p][Len(edges'[p])]) = <<x, y, l>>

\* C2: a line X -->|"L"| Y makes parse append exactly one edge, from X to Y
\* with label L.
C2_PipeEdge ==
    [][\A p \in Procs : \A x \in ClaimIds, y \in ClaimIds, l \in ClaimLabels :
          (Processes(p) /\ CurLine(p) = PipeEdgeLine(x, l, y)) => AppendsEdge(p, x, y, l)]_vars

\* C3: nodes has one entry per distinct id among the valid node-definition
\* lines of the input, whatever the id, and each entry carries the text of
\* the last definition of its id.
C3_NodeCount ==
    \A p \in Procs :
        pc[p] = "done" =>
            LET ls == SplitLines(arg[p])
                defs == {i \in 1..Len(ls) : IsNodeDef(ls[i])}
                ids == {NodeDefId(ls[i]) : i \in defs}
                last(id) == CHOOSE i \in defs :
                                /\ NodeDefId(ls[i]) = id
                                /\ \A j \in defs : NodeDefId(ls[j]) = id => j <= i
            IN  /\ Cardinality(DOMAIN result[p].nodes) = Cardinality(ids)
                /\ \A id \in ids \cap DOMAIN result[p].nodes :
                       result[p].nodes[id].raw_text = NodeDefText(ls[last(id)])

\* the order of the types the claim gives
ClaimedOrder == <<"START", "END", "DECISION", "INPUT", "TRANSFER", "MENU", "PROMPT", "ERROR">>

\* some pattern of the type matches the lower-cased text
TypeMatches(type, text) ==
    \E r \in 1..Len(node_patterns) :
        node_patterns[r].type = type /\ AnyPattern(node_patterns[r].patterns, Lower(text))

\* C4: the type of a text is the first of START, END, DECISION, INPUT,
\* TRANSFER, MENU, PROMPT, ERROR with a pattern that matches the lower-cased
\* text, and ACTION when none does; "Start Call" is START, "Enter PIN" INPUT,
\* "Transfer to Agent" TRANSFER, "Thank you" ACTION, "Press 1 or 2?" DECISION.
C4_Classification ==
    ctype # "unset" =>
        /\ \A k \in 1..Len(ClaimedOrder) :
               (/\ TypeMatches(ClaimedOrder[k], ctext)
                /\ \A j \in 1..(k - 1) : ~TypeMatches(ClaimedOrder[j], ctext))
               => ctype = ClaimedOrder[k]
        /\ (\A k \in 1..Len(ClaimedOrder) : ~TypeMatches(ClaimedOrder[k], ctext))
               => ctype = "ACTION"
        /\ ctext = <<"S", "t", "a", "r", "t", " ", "C", "a", "l", "l">> => ctype = "START"
        /\ ctext = <<"E", "n", "t", "e", "r", " ", "P", "I", "N">> => ctype = "INPUT"
        /\ ctext = <<"T", "r", "a", "n", "s", "f", "e", "r", " ", "t", "o", " ", "A", "g", "e", "n", "t">> => ctype = "TRANSFER"
        /\ ctext = <<"T", "h", "a", "n", "k", " ", "y", "o", "u">> => ctype = "ACTION"
        /\ ctext = <<"P", "r", "e", "s", "s", " ", "1", " ", "o", "r", " ", "2", "?">> => ctype = "DECISION"

\* a text two types match, classified by the earlier one
C4_Witness == ctext = <<"P", "r", "e", "s", "s", " ", "E", "n", "t", "e", "r">> /\ ctype = "DECISION"

Max(S) == CHOOSE x \in S : \A y \in S : y <= x

EndLine == <<"e", "n", "d">>

\* a node definition the loop stores: the line reaches the node recognizer
StoredNodeDef(l) == ReachesNodeStep(l) /\ IsNodeDef(l)

\* the line k lies in no span: every `subgraph` line before it is followed
\* by an `end` line before k
OutsideSpans(ls, k) ==
    \A j \in 1..(k - 1) :
        subgraph_match(ls[j]) # None => \E m \in (j + 1)..(k - 1) : ls[m] = EndLine

\* C5 as stated: a node defined strictly between a `subgraph G` line and the
\* next `end` line is a member of G, and a node whose definition lines all
\* lie outside every such span is a member of no subgraph.
C5_Original ==
    \A p \in Procs :
        pc[p] = "done" =>
            LET ls == SplitLines(arg[p])
                sg == result[p].subgraphs
            IN  \A k \in 1..Len(ls) :
                    StoredNodeDef(ls[k]) =>
                        /\ \A j \in 1..(k - 1), e \in (k + 1)..Len(ls) :
                               (/\ subgraph_match(ls[j]) # None
                                /\ ls[e] = EndLine
                                /\ \A m \in (j + 1)..(e - 1) : ls[m] # EndLine)
                               => NodeDefId(ls[k]) \in sg[subgraph_match(ls[j])[1]].nodes
                        /\ (\A i \in 1..Len(ls) :
                                (StoredNodeDef(ls[i]) /\ NodeDefId(ls[i]) = NodeDefId(ls[k]))
                                => OutsideSpans(ls, i))
                           => \A g \in DOMAIN sg : NodeDefId(ls[k]) \notin sg[g].nodes

\* the lines that move the current-subgraph marker, and the subgraph that
\* is open when line k is processed
MarkerLine(l) == subgraph_match(l) # None \/ l = EndLine
OpenAt(ls, k) ==
    LET ms == {j \in 1..(k - 1) : MarkerLine(ls[j])}
    IN  IF ms = {} THEN None
        ELSE IF ls[Max(ms)] = EndLine THEN None
        ELSE subgraph_match(ls[Max(ms)])[1]

\* C5 as amended: the member set of G holds exactly the ids with a
\* definition line whose nearest preceding `subgraph` or `end` line is a
\* `subgraph G` line, and with no `subgraph G` line after it; an id all of
\* whose definition lines have no subgraph open is in no member set.
C5_Membership ==
    \A p \in Procs :
        pc[p] = "done" =>
            LET ls == SplitLines(arg[p])
                sg == result[p].subgraphs
            IN  /\ DOMAIN sg = {subgraph_match(ls[j])[1] :
                                   j \in {i \in 1..Len(ls) : subgraph_match(ls[i]) # None}}
                /\ \A g \in DOMAIN sg :
                       sg[g].nodes =
                           {NodeDefId(ls[k]) :
                               k \in {i \in 1..Len(ls) :
                                        /\ StoredNodeDef(ls[i])
                                        /\ OpenAt(ls, i) = g
                                        /\ \A j \in (i + 1)..Len(ls) :
                                               subgraph_match(ls[j]) = None
                                               \/ subgraph_match(ls[j])[1] # g}}
                /\ \A id \in DOMAIN result[p].nodes :
                       (\A k \in 1..Len(ls) :
                            (StoredNodeDef(ls[k]) /\ NodeDefId(ls[k]) = id)
                            => OpenAt(ls, k) = None)
                       => \A g \in DOMAIN sg : id \notin sg[g].nodes

\* a node defined after `subgraph G`, `subgraph H`: a member of H, not of G
C5_Witness ==
    /\ pc[1] = "done"
    /\ lines[1] = <<<<"s", "u", "b", "g", "r", "a", "p", "h", " ", "G">>, <<"s", "u", "b", "g", "r", "a", "p", "h", " ", "H", " ", "[", "H", "e", "l", "p", "]">>, <<"A", "[", "\"", "x", "\"", "]">>, <<"e", "n", "d">>>>
    /\ result[1].subgraphs[IdH].nodes = {IdA}
    /\ result[1].subgraphs[IdG].nodes = {}

\* C6: a second parse of the same text returns what the first returned.
C6_Idempotent ==
    \A p \in Procs :
        (pc[p] = "done" /\ prev[p] # NoResult) => result[p] = prev[p]

\* a second call has returned nodes and edges
C6_Witness ==
    /\ pc[1] = "done"
    /\ prev[1] # NoResult
    /\ result[1].edges # <<>>
    /\ DOMAIN result[1].nodes # {}

\* the line matches none of the grammars
NoGrammar(l) ==
    /\ direction_match(l) = None
    /\ subgraph_match(l) = None
    /\ l # EndLine
    /\ _parse_node(l) = None
    /\ _parse_edge(l) = NoneObject
    /\ _parse_style(l) = None

\* C7: a line that matches no grammar does not make parse raise and leaves
\* nodes, edges, subgraphs, metadata and the current-subgraph marker as
\* they were.
C7_Unmatched ==
    [][\A p \in Procs :
          (Processes(p) /\ NoGrammar(CurLine(p))) =>
              /\ pc'[p] = "running"
              /\ nodes'[p] = nodes[p]
              /\ edges'[p] = edges[p]
              /\ subgraphs'[p] = subgraphs[p]
              /\ metadata'[p] = metadata[p]
              /\ current_subgraph'[p] = current_subgraph[p]]_vars

\* `graph` alone has been processed after `flowchart LR`
C7_Witness ==
    /\ pc[1] = "running"
    /\ lines[1] = <<<<"f", "l", "o", "w", "c", "h", "a", "r", "t", " ", "L", "R">>, <<"g", "r", "a", "p", "h">>>>
    /\ idx[1] = 3
    /\ NoGrammar(lines[1][2])
    /\ metadata[1].direction = <<"L", "R">>

\* the locals of a parse that runs alone, after the first n lines of ls
RECURSIVE AloneAfter(_, _)
AloneAfter(ls, n) ==
    IF n = 0 THEN NewLocals(0) ELSE process_line(AloneAfter(ls, n - 1), ls[n])

\* C8: with the loops of two invocations interleaved line by line, each
\* invocation holds, after every line, the locals it would hold running
\* alone, and returns the result it would return running alone.
C8_Isolation ==
    \A p \in Procs :
        /\ pc[p] = "running" =>
               Locals(p) = AloneAfter(SplitLines(arg[p]), idx[p] - 1)
        /\ pc[p] = "done" =>
               result[p] = Returned(AloneAfter(SplitLines(arg[p]),
                                               Len(SplitLines(arg[p]))))

\* both invocations are in the middle of their loops, on different texts
C8_Witness ==
    /\ pc[1] = "running" /\ pc[2] = "running"
    /\ idx[1] = 2 /\ idx[2] = 2
    /\ Len(lines[1]) = 2 /\ Len(lines[2]) = 2
    /\ DOMAIN nodes[1] # {}
    /\ DOMAIN subgraphs[2] # {}

\* C9: a line X --> Y makes parse append the edge from X to Y, label None.
C9_PlainEdge ==
    [][\A p \in Procs : \A x \in ClaimIds, y \in ClaimIds :
          (Processes(p) /\ CurLine(p) = PlainEdgeLine(x, y)) => AppendsEdge(p, x, y, None)]_vars

\* the step adds members to the open subgraph and touches no other record
MemberAddOnly(p) ==
    /\ current_subgraph'[p] = current_subgraph[p]
    /\ current_subgraph[p] # None
    /\ DOMAIN subgraphs'[p] = DOMAIN subgraphs[p]
    /\ \A g \in DOMAIN subgraphs[p] :
           /\ subgraphs'[p][g].id = subgraphs[p][g].id
           /\ subgraphs'[p][g].title = subgraphs[p][g].title
           /\ subgraphs[p][g].nodes \subseteq subgraphs'[p][g].nodes
           /\ g # current_subgraph[p] => subgraphs'[p][g].nodes = subgraphs[p][g].nodes

\* the things one line may change
Changed(p) ==
    <<metadata'[p].direction # metadata[p].direction,
      \/ current_subgraph'[p] # current_subgraph[p]
      \/ (subgraphs'[p] # subgraphs[p] /\ ~MemberAddOnly(p)),
      \/ nodes'[p] # nodes[p]
      \/ (subgraphs'[p] # subgraphs[p] /\ MemberAddOnly(p)),
      edges'[p] # edges[p],
      metadata'[p].styles # metadata[p].styles>>

Enters(p) == pc[p] # "running" /\ pc'[p] = "running"

\* C11: the current-subgraph marker starts at none; a matching `subgraph X`
\* line sets it to X and an `end` line sets it to none, whatever it was
\* before; after `subgraph X`, `subgraph Y`, `end` the marker is none and a
\* node defined next joins neither X's nor Y's member set.
C11_Marker ==
    [][\A p \in Procs :
          /\ Enters(p) => current_subgraph'[p] = None
          /\ Processes(p) =>
                 /\ subgraph_match(CurLine(p)) # None
                        => current_subgraph'[p] = subgraph_match(CurLine(p))[1]
                 /\ CurLine(p) = EndLine => current_subgraph'[p] = None
                 /\ (/\ idx[p] >= 4
                     /\ subgraph_match(lines[p][idx[p] - 3]) # None
                     /\ subgraph_match(lines[p][idx[p] - 2]) # None
                     /\ lines[p][idx[p] - 1] = EndLine)
                    => /\ current_subgraph[p] = None
                       /\ StoredNodeDef(CurLine(p)) =>
                              /\ NodeDefId(CurLine(p)) \in DOMAIN nodes'[p]
                              /\ \A g \in {subgraph_match(lines[p][idx[p] - 3])[1],
                                           subgraph_match(lines[p][idx[p] - 2])[1]} :
                                     NodeDefId(CurLine(p)) \notin subgraphs'[p][g].nodes]_vars

\* `subgraph G`, `subgraph H [Help]`, `end` and a node definition have been
\* processed: the node is stored, the marker is none, G and H are empty
C11_Witness ==
    /\ pc[1] = "running"
    /\ lines[1] = <<<<"s", "u", "b", "g", "r", "a", "p", "h", " ", "G">>, <<"s", "u", "b", "g", "r", "a", "p", "h", " ", "H", " ", "[", "H", "e", "l", "p", "]">>, <<"e", "n", "d">>, <<"A", "[", "\"", "x", "\"", "]">>>>
    /\ idx[1] = 5
    /\ current_subgraph[1] = None
    /\ IdA \in DOMAIN nodes[1]
    /\ subgraphs[1][IdG].nodes = {}
    /\ subgraphs[1][IdH].nodes = {}

\* the loop runs the edge recognizer on the line and it returns an edge
EdgeMatched(l) == ReachesNodeStep(l) /\ ~IsNodeDef(l) /\ _parse_edge(l) # NoneObject

\* invocation p returns in this step
Returns(p) == pc[p] = "running" /\ pc'[p] = "done"

\* C12: the edge sequence holds one entry per line the edge recognizer
\* matched, in the order of the lines: a step on such a line appends its
\* edge, also when the (from_id, to_id) pair is already there; a step on
\* any other line leaves the sequence as it is; parse returns the sequence.
C12_EdgeSequence ==
    [][\A p \in Procs :
          /\ Processes(p) =>
                 IF EdgeMatched(CurLine(p))
                 THEN edges'[p] = Append(edges[p], _parse_edge(CurLine(p)))
                 ELSE edges'[p] = edges[p]
          /\ Returns(p) =>
                 /\ result'[p].edges = edges[p]
                 /\ Len(edges[p]) =
                        Cardinality({k \in 1..Len(lines[p]) : EdgeMatched(lines[p][k])})]_vars

\* two lines with the same endpoints gave two entries, in line order
C12_Witness ==
    /\ pc[1] = "done"
    /\ lines[1] = <<LabeledEdgeLine(IdA, <<"x">>, IdB), <<"A", " ", "-", ".", "-", ">", " ", "B">>>>
    /\ Len(result[1].edges) = 2
    /\ result[1].edges[1].from_id = result[1].edges[2].from_id
    /\ result[1].edges[1].to_id = result[1].edges[2].to_id
    /\ result[1].edges[1].style = "label"
    /\ result[1].edges[2].style = "optional"

\* the pattern of edge_patterns that gives the edge of a line: the first
\* one, in the order of the table, that is found in the line
MatchedBy(l) ==
    edge_patterns[Min({k \in 1..Len(edge_patterns) :
                          EdgeSearch(edge_patterns[k].pattern, l) # NoneObject})].pattern

\* texts between the pipes, and what is left of each when trimmed
EdgeLabels == { <<<<"x">>, <<"x">>>>, <<<<" ", "P", "r", "e", "s", "s", " ", "1", " ">>, <<"P", "r", "e", "s", "s", " ", "1">>>>, <<<<>>, <<>>>> }

\* C13: the label of an edge is not None exactly when the labeled
\* connector X --|L|-> Y gave the edge, and is then L without the
\* whitespace around it; the edges of the plain, dotted and thick
\* connectors have label None.
C13_Label ==
    [][\A p \in Procs :
          (Processes(p) /\ EdgeMatched(CurLine(p))) =>
              \E e \in {edges'[p][Len(edges'[p])]} :
                  /\ e.label # None <=> MatchedBy(CurLine(p)) = "labeled"
                  /\ MatchedBy(CurLine(p)) \in {"basic", "dotted", "thick"} => e.label = None
                  /\ \A x \in ClaimIds, y \in ClaimIds, l \in EdgeLabels :
                         CurLine(p) = LabeledEdgeLine(x, l[1], y) => e.label = l[2]]_vars

\* B --| Press 1 |-> C and a dotted arrow have been returned, the first
\* with its label trimmed, the second with none
C13_Witness ==
    /\ pc[1] = "done"
    /\ lines[1] = <<LabeledEdgeLine(IdB, <<" ", "P", "r", "e", "s", "s", " ", "1", " ">>, IdC), <<"A", " ", "-", ".", "-", ">", " ", "B">>>>
    /\ Len(result[1].edges) = 2
    /\ result[1].edges[1].label = <<"P", "r", "e", "s", "s", " ", "1">>
    /\ result[1].edges[2].label = None

\* the direction token the line declares, by the table DirForms
DeclaredDir(l) == (CHOOSE d \in DirForms : d[1] = l)[2]

\* C14: parse returns the direction token of the last `flowchart <dir>` or
\* `graph <dir>` line, "TD" when there is none; a line that starts with
\* flowchart or graph and has no direction token leaves the direction as
\* it is.
C14_Direction ==
    [][\A p \in Procs :
          /\ Returns(p) =>
                 \E ds \in {{k \in 1..Len(lines[p]) : DeclaredDir(lines[p][k]) # None}} :
                     result'[p].metadata.direction =
                         IF ds = {} THEN <<"T", "D">> ELSE DeclaredDir(lines[p][Max(ds)])
          /\ (/\ Processes(p)
              /\ StartsWith(CurLine(p), <<"f", "l", "o", "w", "c", "h", "a", "r", "t">>) \/ StartsWith(CurLine(p), <<"g", "r", "a", "p", "h">>)
              /\ DeclaredDir(CurLine(p)) = None)
             => metadata'[p].direction = metadata[p].direction]_vars

\* two declarations and a bare `graph`: the second declaration is returned
C14_Witness ==
    /\ pc[1] = "done"
    /\ lines[1] = <<<<"f", "l", "o", "w", "c", "h", "a", "r", "t", " ", "L", "R">>, <<"g", "r", "a", "p", "h", " ", " ", "B", "T", " ", "e", "x", "t", "r", "a">>, <<"g", "r", "a", "p", "h">>>>
    /\ result[1].metadata.direction = <<"B", "T">>

\* the types of NodeType no pattern table row carries
DeadTypes == {"SUBPROCESS", "RETRY"}

\* C15: no node parse holds or returns has the type SUBPROCESS or RETRY;
\* the text "Retry" is classified by the table, as ERROR.
C15_DeadTypes ==
    \A p \in Procs :
        /\ \A id \in DOMAIN nodes[p] :
               /\ nodes[p][id].node_type \in NodeType \ DeadTypes
               /\ nodes[p][id].raw_text = <<"R", "e", "t", "r", "y">> => nodes[p][id].node_type = "ERROR"
        /\ pc[p] = "done" =>
               \A id \in DOMAIN result[p].nodes :
                   /\ result[p].nodes[id].node_type \in NodeType \ DeadTypes
                   /\ result[p].nodes[id].raw_text = <<"R", "e", "t", "r", "y">>
                          => result[p].nodes[id].node_type = "ERROR"

\* parse has returned the node of A("Retry")
C15_Witness ==
    /\ pc[1] = "done"
    /\ lines[1] = <<NodeLine(IdA, 3, <<"R", "e", "t", "r", "y">>)>>
    /\ result[1].nodes[IdA].raw_text = <<"R", "e", "t", "r", "y">>
    /\ result[1].nodes[IdA].node_type = "ERROR"

\* the subgraphs whose member set holds the id
MemberOf(sg, id) == {g \in DOMAIN sg : id \in sg[g].nodes}

\* the line of the definition nodes keeps for the id: the last one stored
StoredDefLine(ls, id) ==
    Max({k \in 1..Len(ls) : StoredNodeDef(ls[k]) /\ NodeDefId(ls[k]) = id})

\* C16: every id of nodes is in the member set of at most one subgraph,
\* the one that was open when the definition nodes keeps for it was
\* processed, and of none when none was open then.
C16_OneSubgraph ==
    \A p \in Procs :
        pc[p] = "done" =>
            \A id \in DOMAIN result[p].nodes :
                /\ Cardinality(MemberOf(result[p].subgraphs, id)) <= 1
                /\ MemberOf(result[p].subgraphs, id) =
                       IF OpenAt(lines[p], StoredDefLine(lines[p], id)) = None
                       THEN {}
                       ELSE {OpenAt(lines[p], StoredDefLine(lines[p], id))}

\* an identifier token: one or more word characters
IsToken(s) == s # None /\ Len(s) >= 1 /\ \A i \in 1..Len(s) : WordChar(s[i])

\* C17: both ends of every returned edge are identifier tokens, never None.
C17_Endpoints ==
    \A p \in Procs :
        pc[p] = "done" =>
            \A i \in 1..Len(result[p].edges) :
                /\ IsToken(result[p].edges[i].from_id)
                /\ IsToken(result[p].edges[i].to_id)

\* C18: the subgraph field of a returned node is G exactly when the id is
\* in the member set of G, and None exactly when it is in no member set.
C18_BackReference ==
    \A p \in Procs :
        pc[p] = "done" =>
            \A id \in DOMAIN result[p].nodes :
                /\ \A g \in DOMAIN result[p].subgraphs :
                       result[p].nodes[id].subgraph = g <=> id \in result[p].subgraphs[g].nodes
                /\ result[p].nodes[id].subgraph = None
                       <=> MemberOf(result[p].subgraphs, id) = {}

\* C19: at every point of the loop the current-subgraph marker is None or
\* the id of a record of subgraphs, every member of every record is a key
\* of nodes, and no step fails on a missing record.
C19_Consistent ==
    \A p \in Procs :
        /\ current_subgraph[p] = None \/ current_subgraph[p] \in DOMAIN subgraphs[p]
        /\ \A g \in DOMAIN subgraphs[p] : subgraphs[p][g].nodes \subseteq DOMAIN nodes[p]
        /\ pc[p] # "raised"

\* a node has just joined the member set of the open subgraph
C19_Witness ==
    /\ pc[1] = "running"
    /\ idx[1] = 3
    /\ lines[1][1] = <<"s", "u", "b", "g", "r", "a", "p", "h", " ", "G">>
    /\ StoredNodeDef(lines[1][2])
    /\ current_subgraph[1] = IdG
    /\ subgraphs[1][IdG].nodes = {NodeDefId(lines[1][2])}
    /\ NodeDefId(lines[1][2]) \in DOMAIN nodes[1]
====
